---- MODULE Spec2Model ----
(***************************************************************************)
(* Model of the detection page component, src/src/app/page.tsx (Home).     *)
(*                                                                         *)
(* The component's state is the six useState cells.  The asynchronous      *)
(* handler handleDetect is split at its only suspension point: the part    *)
(* before the await (dispatch), the answer of the network (a message in    *)
(* flight, FetchSettle) and the part after the await (resumeDetect).       *)
(* Event handlers run one at a time, and React flushes the state updates   *)
(* of a discrete event before the next event is delivered, so each handler *)
(* is one atomic step and the button's disabled attribute is computed from *)
(* the current state.                                                      *)
(***************************************************************************)
EXTENDS Integers, FiniteSets, Sequences, Bags, TLC

(* ------------------------------ bounds --------------------------------- *)
MaxFiles == 2        \* distinct image files the picker can yield
MaxUrls == 3         \* calls of URL.createObjectURL in one behaviour
MaxInFlight == 2     \* fetch calls that can be outstanding at once
MaxCount == 1        \* largest detection_stats.total_count the server sends

(* ------------------------- program constants --------------------------- *)
NoFile == 0                       \* selectedFile === null / files?.[0] undefined
NoUrl == 0                        \* previewUrl === ''
ConfDefault == 25                 \* useState(0.25), in hundredths
ConfMin == 10                     \* min="0.1"
ConfMax == 90                     \* max="0.9"
NoError == ""
SelectFirstMsg == "Please select an image first"
DetectionFailedMsg == "Detection failed"
ConnectFailedMsg == "Failed to connect to API. Make sure Flask server is running on port 5000"
ServerMsg == "No detections found"

Files == 1..MaxFiles
Confidences == {ConfMin, ConfDefault, ConfMax}

(* ----------------------- response bodies (JSON) ------------------------ *)
\* JavaScript null: the initial results, and a body that parses to null.
Null ==
  [isNull |-> TRUE, success |-> FALSE, filename |-> NoFile, total_count |-> 0,
   hasError |-> FALSE, error |-> ""]

\* DetectionResponse with success: true; the server echoes the file it was sent.
OkBody(file, count) ==
  [isNull |-> FALSE, success |-> TRUE, filename |-> file, total_count |-> count,
   hasError |-> FALSE, error |-> ""]

\* A body with success: false, with or without an error field.
FailBody(hasError, msg) ==
  [isNull |-> FALSE, success |-> FALSE, filename |-> NoFile, total_count |-> 0,
   hasError |-> hasError, error |-> msg]

FailBodies ==
  {FailBody(FALSE, ""), FailBody(TRUE, ""), FailBody(TRUE, ServerMsg)}

\* What the network can answer to a request that carried the given file.
Pending == [kind |-> "pending", data |-> Null]

Outcomes(file) ==
  {[kind |-> "reject", data |-> Null], [kind |-> "nonjson", data |-> Null],
   [kind |-> "json", data |-> Null]}
  \cup {[kind |-> "json", data |-> OkBody(file, c)] : c \in 0..MaxCount}
  \cup {[kind |-> "json", data |-> b] : b \in FailBodies}

\* One call of fetch whose continuation has not run yet: the FormData it
\* carries and the answer of the network, once there is one.
Request(file, conf) == [image |-> file, confidence |-> conf, outcome |-> Pending]

One(r) == SetToBag({r})

(* ------------------------------- state --------------------------------- *)
VARIABLES selectedFile, previewUrl, loading, results, error, confidence,
          requests, urlCount

vars == <<selectedFile, previewUrl, loading, results, error, confidence,
          requests, urlCount>>

State ==
  [selectedFile |-> selectedFile, previewUrl |-> previewUrl, loading |-> loading,
   results |-> results, error |-> error, confidence |-> confidence,
   requests |-> requests, urlCount |-> urlCount]

Becomes(s) ==
  /\ selectedFile' = s.selectedFile
  /\ previewUrl' = s.previewUrl
  /\ loading' = s.loading
  /\ results' = s.results
  /\ error' = s.error
  /\ confidence' = s.confidence
  /\ requests' = s.requests
  /\ urlCount' = s.urlCount

Init ==
  /\ selectedFile = NoFile
  /\ previewUrl = NoUrl
  /\ loading = FALSE
  /\ results = Null
  /\ error = NoError
  /\ confidence = ConfDefault
  /\ requests = EmptyBag
  /\ urlCount = 0

\* The number of fetch calls whose continuation has not run yet.
InFlight(s) == BagCardinality(s.requests)

(* ------------------------------ handlers ------------------------------- *)
\* URL.createObjectURL: every call returns a URL no earlier call returned.
createObjectURL(s) == s.urlCount + 1

\* handleFileSelect without setResults(null).
handleFileSelect_KeepResults(s, file) ==
  IF file # NoFile
  THEN [s EXCEPT !.selectedFile = file,
                 !.previewUrl = createObjectURL(s),
                 !.urlCount = s.urlCount + 1,
                 !.error = NoError]
  ELSE s

handleFileSelect(s, file) ==
  IF file # NoFile
  THEN [s EXCEPT !.selectedFile = file,
                 !.previewUrl = createObjectURL(s),
                 !.urlCount = s.urlCount + 1,
                 !.results = Null,
                 !.error = NoError]
  ELSE s

setConfidence(s, value) == [s EXCEPT !.confidence = value]

\* handleDetect without the early return for a missing file.
handleDetect_NoGuard(s) ==
  [s EXCEPT !.loading = TRUE,
            !.error = NoError,
            !.requests = s.requests (+) One(Request(s.selectedFile, s.confidence))]

\* handleDetect without setError('') at dispatch.
handleDetect_KeepError(s) ==
  IF s.selectedFile = NoFile
  THEN [s EXCEPT !.error = SelectFirstMsg]
  ELSE [s EXCEPT !.loading = TRUE,
                 !.requests = s.requests (+) One(Request(s.selectedFile, s.confidence))]

\* handleDetect up to the await of fetch.
handleDetect(s) ==
  IF s.selectedFile = NoFile
  THEN [s EXCEPT !.error = SelectFirstMsg]
  ELSE [s EXCEPT !.loading = TRUE,
                 !.error = NoError,
                 !.requests = s.requests (+) One(Request(s.selectedFile, s.confidence))]

\* disabled={!selectedFile}
DetectDisabled_NoLoading(s) == s.selectedFile = NoFile

\* disabled={!selectedFile || loading}
DetectDisabled(s) == s.selectedFile = NoFile \/ s.loading

\* fetch rejects, response.json() rejects, or data.success reads a property of null.
Throws(outcome) ==
  \/ outcome.kind = "reject"
  \/ outcome.kind = "nonjson"
  \/ outcome.kind = "json" /\ outcome.data.isNull

\* data.error ?? 'Detection failed'
errorOrDefault_Nullish(data) ==
  IF data.hasError THEN data.error ELSE DetectionFailedMsg

\* data.error || 'Detection failed'
errorOrDefault(data) ==
  IF data.hasError /\ data.error # "" THEN data.error ELSE DetectionFailedMsg

\* handleDetect after the await, with setLoading(false) at the end of the
\* try block instead of in a finally block.
resumeDetect_NoFinally(s, req) ==
  LET outcome == req.outcome
      settled ==
        IF Throws(outcome)
        THEN [s EXCEPT !.error = ConnectFailedMsg]
        ELSE IF outcome.data.success
             THEN [s EXCEPT !.results = outcome.data, !.loading = FALSE]
             ELSE [s EXCEPT !.error = errorOrDefault(outcome.data), !.loading = FALSE]
  IN [settled EXCEPT !.requests = s.requests (-) One(req)]

\* handleDetect after the await, sending the request again when it threw.
resumeDetect_Retry(s, req) ==
  LET outcome == req.outcome
  IN IF Throws(outcome)
     THEN [s EXCEPT !.error = ConnectFailedMsg,
                    !.requests = (s.requests (-) One(req))
                                 (+) One([req EXCEPT !.outcome = Pending])]
     ELSE IF outcome.data.success
          THEN [s EXCEPT !.results = outcome.data, !.loading = FALSE,
                         !.requests = s.requests (-) One(req)]
          ELSE [s EXCEPT !.error = errorOrDefault(outcome.data), !.loading = FALSE,
                         !.requests = s.requests (-) One(req)]

\* handleDetect after the await: try body, catch, finally.
resumeDetect(s, req) ==
  LET outcome == req.outcome
      settled ==
        IF Throws(outcome)
        THEN [s EXCEPT !.error = ConnectFailedMsg]
        ELSE IF outcome.data.success
             THEN [s EXCEPT !.results = outcome.data]
             ELSE [s EXCEPT !.error = errorOrDefault(outcome.data)]
  IN [settled EXCEPT !.loading = FALSE, !.requests = s.requests (-) One(req)]

(* ------------------------------- actions ------------------------------- *)
HandleFileSelect ==
  \E file \in Files \cup {NoFile} :
    /\ file # NoFile => urlCount < MaxUrls
    /\ Becomes(handleFileSelect(State, file))

SetConfidence ==
  \E value \in Confidences : Becomes(setConfidence(State, value))

\* A click on the Detect button: delivered only while the button is enabled.
ClickDetect ==
  /\ ~DetectDisabled(State)
  /\ InFlight(State) < MaxInFlight
  /\ Becomes(handleDetect(State))

\* handleDetect called as a function, whatever the button shows.
CallHandleDetect ==
  /\ selectedFile # NoFile => InFlight(State) < MaxInFlight
  /\ Becomes(handleDetect(State))

\* The network answers (or fails) one outstanding request.
FetchSettle ==
  \E req \in BagToSet(requests) : \E outcome \in Outcomes(req.image) :
    /\ req.outcome = Pending
    /\ requests' = (requests (-) One(req)) (+) One([req EXCEPT !.outcome = outcome])
    /\ UNCHANGED <<selectedFile, previewUrl, loading, results, error,
                   confidence, urlCount>>

\* The continuation of handleDetect runs with the answer.
ResumeDetect ==
  \E req \in BagToSet(requests) :
    /\ req.outcome # Pending
    /\ Becomes(resumeDetect(State, req))

Next ==
  \/ HandleFileSelect
  \/ SetConfidence
  \/ ClickDetect
  \/ FetchSettle
  \/ ResumeDetect

\* The page as the user drives it.
Spec == Init /\ [][Next]_vars

\* The page with a network that answers or fails every request.
FairSpec == Spec /\ WF_vars(FetchSettle) /\ WF_vars(ResumeDetect)

NextHandler ==
  \/ HandleFileSelect
  \/ SetConfidence
  \/ CallHandleDetect
  \/ FetchSettle
  \/ ResumeDetect

\* The handlers called directly, without the button's disabled attribute.
HandlerSpec == Init /\ [][NextHandler]_vars

(* ------------------------------ properties ----------------------------- *)
\* The continuation of request req runs in this step.
Resumed(req) ==
  /\ req \in BagToSet(requests)
  /\ req.outcome # Pending
  /\ requests' = requests (-) One(req)

\* A request is handed to fetch in this step.
Dispatched ==
  \E req \in BagToSet(requests') :
    /\ req.outcome = Pending
    /\ CopiesIn(req, requests') > CopiesIn(req, requests)

\* The six useState cells of a state.
Component(s) ==
  <<s.selectedFile, s.previewUrl, s.loading, s.results, s.error, s.confidence>>

\* C1: whenever no request is in flight, results and error are not both
\* populated.
C1_ResultXorError ==
  InFlight(State) = 0 => ~(results # Null /\ error # NoError)

\* C2: when the continuation of a request that failed in transport (fetch
\* rejected, body not JSON, body null) has run, error is the fixed
\* diagnostic string and results is empty.
C2_TransportFailureClearsResult ==
  [][\A req \in BagToSet(requests) :
        (Resumed(req) /\ Throws(req.outcome))
          => (error' = ConnectFailedMsg /\ results' = Null)]_vars

\* C3: at most one request is outstanding at any time, and the Detect button
\* is disabled while one is.
C3_AtMostOneInFlight ==
  /\ InFlight(State) <= 1
  /\ InFlight(State) = 1 => DetectDisabled(State)

\* A request is outstanding and answered, and the selection has changed
\* under it.
C3_Witness ==
  /\ InFlight(State) = 1
  /\ \E req \in BagToSet(requests) :
        req.outcome # Pending /\ req.image # selectedFile

\* C4: loading is true exactly while a dispatched request has not settled.
C4_LoadingIffInFlight ==
  loading <=> InFlight(State) > 0

\* A request has settled with the server's error message.
C4_Witness ==
  ~loading /\ InFlight(State) = 0 /\ error = ServerMsg

\* C5: with no image selected nothing is in flight, and handleDetect only
\* sets the error to "Please select an image first".
C5_NoImageNoRequest ==
  selectedFile = NoFile =>
    /\ ~loading
    /\ InFlight(State) = 0
    /\ handleDetect(State) = [State EXCEPT !.error = SelectFirstMsg]

\* handleDetect has been called with no image selected.
C5_Witness ==
  selectedFile = NoFile /\ error = SelectFirstMsg /\ confidence # ConfDefault

\* C6: when the continuation of a request whose body has a truthy success
\* has run, results is that body and error is empty.
C6_SuccessStoresBody ==
  [][\A req \in BagToSet(requests) :
        (Resumed(req) /\ ~Throws(req.outcome) /\ req.outcome.data.success)
          => (results' = req.outcome.data /\ error' = NoError)]_vars

\* A successful response has been stored.
C6_Witness ==
  /\ ~loading
  /\ results # Null
  /\ results.total_count = MaxCount
  /\ results.filename = selectedFile
  /\ error = NoError

\* C7 as stated: after a body with a falsy success, error is the body's
\* error field when it is present and "Detection failed" when it is absent,
\* and results is untouched.
C7_ErrorFieldWhenPresent ==
  [][\A req \in BagToSet(requests) :
        (Resumed(req) /\ ~Throws(req.outcome) /\ ~req.outcome.data.success)
          => /\ error' = IF req.outcome.data.hasError
                         THEN req.outcome.data.error
                         ELSE DetectionFailedMsg
             /\ results' = results]_vars

\* C7 as amended: after a body with a falsy success, error is the body's
\* error field when it is present and not empty, and "Detection failed"
\* when it is absent or empty; results is untouched.
C7_ErrorFieldWhenTruthy ==
  [][\A req \in BagToSet(requests) :
        (Resumed(req) /\ ~Throws(req.outcome) /\ ~req.outcome.data.success)
          => /\ error' = IF req.outcome.data.hasError /\ req.outcome.data.error # ""
                         THEN req.outcome.data.error
                         ELSE DetectionFailedMsg
             /\ results' = results]_vars

\* A failed detection has settled with the fallback message, over an
\* earlier result.
C7_Witness ==
  ~loading /\ error = DetectionFailedMsg /\ results # Null

\* What C8 says of one selection of a file, from the current state.
SelectResets(file) ==
  LET once == handleFileSelect(State, file)
  IN /\ once.results = Null
     /\ once.error = NoError
     /\ once.selectedFile = file
     /\ once.previewUrl # NoUrl
     /\ once.previewUrl # previewUrl
     /\ once.confidence = confidence
     /\ once.loading = loading
     /\ once.requests = requests

\* C8 as stated: selecting a file clears results and error, replaces the
\* selection and the preview URL and leaves confidence and loading alone;
\* selecting it a second time yields the same state; selecting no file
\* changes nothing.
C8_SelectIdempotent ==
  /\ \A file \in Files :
        /\ SelectResets(file)
        /\ Component(handleFileSelect(handleFileSelect(State, file), file))
             = Component(handleFileSelect(State, file))
  /\ handleFileSelect(State, NoFile) = State

\* C8 as amended: as stated, except that the second selection yields the
\* same state up to the preview URL, which is a new object URL each time.
C8_SelectIdempotentUpToUrl ==
  /\ \A file \in Files :
        LET once == handleFileSelect(State, file)
            twice == handleFileSelect(once, file)
        IN /\ SelectResets(file)
           /\ Component([twice EXCEPT !.previewUrl = once.previewUrl])
                = Component(once)
           /\ twice.previewUrl # once.previewUrl
  /\ handleFileSelect(State, NoFile) = State

\* A file was selected while a request for another file was in flight.
C8_Witness ==
  /\ loading
  /\ results = Null
  /\ error = NoError
  /\ previewUrl = urlCount
  /\ urlCount >= 2
  /\ \E req \in BagToSet(requests) : req.image # selectedFile

\* C9: the answer to a request for an image that is no longer the selected
\* one changes neither results nor error.
C9_NoStaleOverwrite ==
  [][\A req \in BagToSet(requests) :
        (Resumed(req) /\ req.image # selectedFile)
          => (results' = results /\ error' = error)]_vars

\* C10: every request settles and loading returns to false; once settled
\* with an image selected the Detect button is enabled; and a request is
\* handed to fetch only by a click on the enabled button, one per click.
C10_SettlesAndRetryable ==
  /\ loading ~> ~loading
  /\ [](InFlight(State) = 0 /\ selectedFile # NoFile => ~DetectDisabled(State))
  /\ [][Dispatched => /\ ~DetectDisabled(State)
                      /\ BagCardinality(requests') = InFlight(State) + 1]_vars

\* A request failed in transport, and the button is enabled again.
C10_Witness ==
  /\ InFlight(State) = 0
  /\ ~DetectDisabled(State)
  /\ error = ConnectFailedMsg

TypeOK ==
  /\ selectedFile \in Files \cup {NoFile}
  /\ previewUrl \in 0..MaxUrls
  /\ loading \in BOOLEAN
  /\ confidence \in Confidences
  /\ urlCount \in 0..MaxUrls
  /\ IsABag(requests)
  /\ InFlight(State) <= MaxInFlight
====
